---- MODULE Spec2Model ----
(***************************************************************************)
(* Model of the posting scheduler of the trading notification bot:         *)
(* the dedup store (deduplicator.py), the Twitter rate limiter             *)
(* (rate_limiter.py), the slot allocator and the publish pipeline of       *)
(* OptimalScheduler (scheduler_v2.py), and the manual trigger (health.py). *)
(*                                                                         *)
(* Time is in whole seconds; now = 0 is Monday 00:00:00 local time.        *)
(***************************************************************************)
EXTENDS Integers, Sequences, FiniteSets, TLC

VARIABLES
    now,               \* datetime.now(), in seconds
    ticks,             \* number of clock advances taken so far
    content_hashes,    \* table content_hashes, rows in id order
    twitter_posts,     \* table twitter_posts, posted_at of each row in id order
    max_per_minute,    \* config.twitter_max_posts_per_minute
    max_per_day,       \* config.twitter_max_posts_per_day
    dry_run,           \* config.dry_run
    use_ai,            \* scheduler.use_ai: an OpenAI key is configured
    stats,             \* OptimalScheduler.stats
    tasks,             \* the _execute_job coroutines in flight, in the order they started
    firings,           \* number of firings that got past the fetch, or may still
    ENDPOINT_CONFIG,   \* OptimalScheduler.ENDPOINT_CONFIG (class-level dict)
    active_endpoints,  \* OptimalScheduler.active_endpoints (list)
    jobs,              \* jobs registered with the AsyncIOScheduler
    running,           \* scheduler.running
    ops,               \* number of add_endpoint / remove_endpoint calls so far
    calls,             \* number of direct store / limiter calls so far
    last_op,           \* history: the last operation called and what it returned
    record_calls,      \* history: triples <<hash, endpoint, platform>> passed to record_post
    pub_log            \* history: successful publishes, in order

vars == <<now, ticks, content_hashes, twitter_posts, max_per_minute, max_per_day,
          dry_run, use_ai, stats, tasks, firings, ENDPOINT_CONFIG, active_endpoints, jobs,
          running, ops, calls, last_op, record_calls, pub_log>>

clockVars == <<now, ticks>>
cfgVars   == <<max_per_minute, max_per_day, dry_run, use_ai>>
schedVars == <<stats, tasks, firings>>
allocVars == <<ENDPOINT_CONFIG, active_endpoints, jobs, running, ops>>

-----------------------------------------------------------------------------
(* Bounds of the model *)

MaxTicks == 2
MaxCalls == 3
MaxFirings == 2
MaxOps == 2
MaxDailyCap == 17

(* Program constants *)

MINUTE_SECONDS == 60
DAY_SECONDS == 86400
RETENTION_DAYS == 7

\* How far the clock may jump in one step: 10 s and 50 s meet the 60 s window
\* edge exactly (10 + 50) or stay inside it; a day less a minute passes the
\* 60 s edge and, after a 10 s or 50 s step, stays inside the 24 h window.
WindowDeltas == {10, 50, DAY_SECONDS - MINUTE_SECONDS}
RetentionDeltas == {10, RETENTION_DAYS * DAY_SECONDS}

StartTime == 10 * 3600   \* Monday 10:00:00

Platforms == {"discord", "twitter"}

-----------------------------------------------------------------------------
(* Payloads: a JSON object is a sequence of <<key, value>> pairs in the     *)
(* dict's insertion order; a value is a number or a nested object.          *)
(* "success" is 1 (true) or 0 (false); "data" is the content collection,    *)
(* the number 0 for an empty one and an item id otherwise, or an object.    *)

JsonInt(n) == [map |-> FALSE, v |-> n, kv |-> <<>>]
JsonMap(pairs) == [map |-> TRUE, v |-> 0, kv |-> pairs]

\* The order of the keys as strings: "articles" < "count" < "data" < "success".
KeyRank(k) ==
    CASE k = "articles" -> 1
      [] k = "count" -> 2
      [] k = "data" -> 3
      [] OTHER -> 4

RECURSIVE InsertByKey(_, _)
InsertByKey(kv, s) ==
    IF s = <<>> THEN <<kv>>
    ELSE IF KeyRank(kv[1]) <= KeyRank(Head(s)[1]) THEN <<kv>> \o s
    ELSE <<Head(s)>> \o InsertByKey(kv, Tail(s))

\* json.dumps without sort_keys: every object keeps its insertion order.
json_dumps_insertion_order(data) == data

\* json.dumps(data, sort_keys=True): the keys of the object and of every
\* object nested in it come out sorted.
RECURSIVE json_dumps_sort_keys(_)
json_dumps_sort_keys(data) ==
    IF data = <<>> THEN <<>>
    ELSE LET k == Head(data)[1]
             value == Head(data)[2]
             dumped == IF value.map
                       THEN JsonMap(json_dumps_sort_keys(value.kv))
                       ELSE value
         IN  InsertByKey(<<k, dumped>>, json_dumps_sort_keys(Tail(data)))

\* sha256 is taken to be collision free: the digest is the serialization.
compute_hash(data) == json_dumps_sort_keys(data)

dict_get(data, k, default) ==
    IF \E i \in DOMAIN data : data[i][1] = k
    THEN (data[CHOOSE i \in DOMAIN data : data[i][1] = k])[2]
    ELSE default

Payload(success, content) ==
    << <<"success", JsonInt(success)>>, <<"data", JsonInt(content)>> >>
PayloadSwapped(success, content) ==
    << <<"data", JsonInt(content)>>, <<"success", JsonInt(success)>> >>

-----------------------------------------------------------------------------
(* Deduplicator *)

\* Variant: the table declares no UNIQUE constraint at all.
UniqueViolation_none(db, row) == FALSE

\* UNIQUE is declared on content_hash alone (deduplicator.py:38).
UniqueViolation(db, row) ==
    \E i \in DOMAIN db : db[i].content_hash = row.content_hash

\* Variant: the SELECT matches on content_hash alone.
is_duplicate_hash_only(db, data, endpoint, platform) ==
    \E i \in DOMAIN db : db[i].content_hash = compute_hash(data)

is_duplicate(db, data, endpoint, platform) ==
    LET content_hash == compute_hash(data)
        count == Cardinality({i \in DOMAIN db :
                     /\ db[i].content_hash = content_hash
                     /\ db[i].endpoint = endpoint
                     /\ db[i].platform = platform})
    IN  count > 0

\* What the INSERT of record_post raises.
record_post_error(db, row) ==
    IF UniqueViolation(db, row) THEN "IntegrityError" ELSE "None"

\* Variant: record_post has no except clause.
record_post_catches_nothing(error) == FALSE

\* except sqlite3.IntegrityError
record_post_catches(error) == error = "IntegrityError"

\* The table after Deduplicator.record_post at time t; the IntegrityError of a
\* refused INSERT is swallowed.
Deduplicator_record_post(db, data, endpoint, platform, t) ==
    LET row == [content_hash |-> compute_hash(data), endpoint |-> endpoint,
                platform |-> platform, posted_at |-> t]
    IN  IF UniqueViolation(db, row) THEN db ELSE Append(db, row)

\* Variant: the tables are created afresh at every construction.
init_database_fresh(table) == <<>>

\* _init_database of either class on an existing database file: CREATE TABLE
\* IF NOT EXISTS and CREATE INDEX IF NOT EXISTS leave a table that is there,
\* and its rows, as they are.
init_database(table) == table

\* What a Python call returns: None, or a number.
NoneValue == [is_none |-> TRUE, value |-> 0]
IntValue(n) == [is_none |-> FALSE, value |-> n]

\* What cleanup_old_hashes and cleanup_old_records return after deleting
\* that many rows: neither has a return statement, the row count is logged.
cleanup_returns(deleted) == NoneValue

cleanup_old_hashes(db, t, days) ==
    LET cutoff == t - days * DAY_SECONDS
        Keep(r) == ~(r.posted_at < cutoff)
    IN  SelectSeq(db, Keep)

-----------------------------------------------------------------------------
(* RateLimiter *)

\* Variant: the SELECT compares with >= instead of >.
CountSince_inclusive(posts, cutoff) ==
    Cardinality({i \in DOMAIN posts : posts[i] >= cutoff})

CountSince(posts, cutoff) == Cardinality({i \in DOMAIN posts : posts[i] > cutoff})

\* Variant: the daily cap is checked before the per-minute cap.
can_post_day_first(posts, t) ==
    IF CountSince(posts, t - DAY_SECONDS) >= max_per_day
    THEN <<FALSE, "per-day">>
    ELSE IF CountSince(posts, t - MINUTE_SECONDS) >= max_per_minute
    THEN <<FALSE, "per-minute">>
    ELSE <<TRUE, "None">>

\* Variant: a cap is reached only when the count exceeds it.
can_post_off_by_one(posts, t) ==
    IF CountSince(posts, t - MINUTE_SECONDS) > max_per_minute
    THEN <<FALSE, "per-minute">>
    ELSE IF CountSince(posts, t - DAY_SECONDS) > max_per_day
    THEN <<FALSE, "per-day">>
    ELSE <<TRUE, "None">>

can_post(posts, t) ==
    LET one_minute_ago == t - MINUTE_SECONDS
        one_day_ago == t - DAY_SECONDS
    IN  IF CountSince(posts, one_minute_ago) >= max_per_minute
        THEN <<FALSE, "per-minute">>
        ELSE IF CountSince(posts, one_day_ago) >= max_per_day
        THEN <<FALSE, "per-day">>
        ELSE <<TRUE, "None">>

RateLimiter_record_post(posts, t) == Append(posts, t)

\* The wait can_post puts in its per-minute reason (rate_limiter.py:74-75):
\* one_minute_ago is now - 60 s, and the .seconds of the timedelta
\* now - one_minute_ago is the whole seconds of it within a day.
wait_seconds(t) ==
    LET one_minute_ago == t - MINUTE_SECONDS
    IN  60 - ((t - one_minute_ago) % DAY_SECONDS)

\* wait_if_needed(max_wait_seconds) called at t: what it returns and how long
\* it has slept.  Only the per-minute reason has "Wait" in it.
wait_if_needed(posts, t, max_wait_seconds) ==
    LET answer == can_post(posts, t)
    IN  IF answer[1] THEN [returns |-> TRUE, slept |-> 0]
        ELSE IF answer[2] = "per-minute" /\ wait_seconds(t) <= max_wait_seconds
        THEN [returns |-> TRUE, slept |-> wait_seconds(t)]
        ELSE [returns |-> FALSE, slept |-> 0]

\* The cutoff taken in hours instead of days.
cleanup_old_records_hours(posts, t, days) ==
    LET cutoff == t - days * 3600
        Keep(p) == ~(p < cutoff)
    IN  SelectSeq(posts, Keep)

cleanup_old_records(posts, t, days) ==
    LET cutoff == t - days * DAY_SECONDS
        Keep(p) == ~(p < cutoff)
    IN  SelectSeq(posts, Keep)

-----------------------------------------------------------------------------
(* OptimalScheduler.ENDPOINT_CONFIG as the class defines it.  An absent      *)
(* max_daily (None) is NoMaxDaily, an absent fixed_times is                  *)
(* has_fixed_times = FALSE, an absent day_of_week is "".                     *)

PREMIUM == 1
MARKET == 2
ANALYSIS == 3
DAILY_RECAP == 4
NoMaxDaily == -1

Flexible(priority, api_method, window, market_hours_only) ==
    [priority |-> priority, api_method |-> api_method, window |-> window,
     market_hours_only |-> market_hours_only, has_fixed_times |-> FALSE,
     fixed_times |-> <<>>, max_daily |-> NoMaxDaily, day_of_week |-> ""]

Fixed(api_method, fixed_times, max_daily, day_of_week) ==
    [priority |-> DAILY_RECAP, api_method |-> api_method, window |-> "full_day",
     market_hours_only |-> FALSE, has_fixed_times |-> TRUE,
     fixed_times |-> fixed_times, max_daily |-> max_daily,
     day_of_week |-> day_of_week]

EndpointOrder ==
    <<"benzinga_news", "benzinga_ratings", "benzinga_earnings", "yahoo_quote",
      "top_gainers", "reddit_trending", "cnn_fear_greed", "sector_performance",
      "economic_calendar", "vix", "sec_insider">>

StaticEndpointConfig ==
    [ep \in {EndpointOrder[i] : i \in DOMAIN EndpointOrder} |->
        CASE ep = "benzinga_news"      -> Flexible(PREMIUM, "get_benzinga_news", "full_day", FALSE)
          [] ep = "benzinga_ratings"   -> Flexible(PREMIUM, "get_benzinga_ratings", "full_day", FALSE)
          [] ep = "benzinga_earnings"  -> Flexible(PREMIUM, "get_benzinga_earnings", "full_day", FALSE)
          [] ep = "yahoo_quote"        -> Flexible(MARKET, "get_yahoo_finance_quote", "market_hours", TRUE)
          [] ep = "top_gainers"        -> Flexible(MARKET, "get_top_gainers", "market_hours", TRUE)
          [] ep = "reddit_trending"    -> Flexible(ANALYSIS, "get_reddit_trending", "full_day", FALSE)
          [] ep = "cnn_fear_greed"     -> Flexible(ANALYSIS, "get_cnn_fear_greed", "full_day", FALSE)
          [] ep = "sector_performance" -> Fixed("get_sector_performance", << <<16, 30>> >>, 1, "")
          [] ep = "economic_calendar"  -> Fixed("get_economic_calendar", << <<6, 30>> >>, 1, "0,2,4")
          [] ep = "vix"                -> Fixed("get_vix", << <<6, 30>> >>, 1, "1,3")
          [] ep = "sec_insider"        -> Fixed("get_sec_insider_filings", << <<6, 30>> >>, 1, "5,6")]

-----------------------------------------------------------------------------
(* Slot allocation, time generation and job registration.                    *)

Range(s) == {s[i] : i \in DOMAIN s}

RECURSIVE SumValues(_)
SumValues(f) ==
    IF DOMAIN f = {} THEN 0
    ELSE LET k == CHOOSE x \in DOMAIN f : TRUE
         IN  f[k] + SumValues([x \in DOMAIN f \ {k} |-> f[x]])

\* Variant: the sort runs from the highest priority value to the lowest.
RECURSIVE InsertByPriority_descending(_, _, _)
InsertByPriority_descending(ep, s, config) ==
    IF s = <<>> THEN <<ep>>
    ELSE IF config[ep].priority > config[Head(s)].priority THEN <<ep>> \o s
    ELSE <<Head(s)>> \o InsertByPriority_descending(ep, Tail(s), config)

\* sorted(flexible_eps, key=priority.value): a stable sort.
RECURSIVE InsertByPriority(_, _, _)
InsertByPriority(ep, s, config) ==
    IF s = <<>> THEN <<ep>>
    ELSE IF config[ep].priority < config[Head(s)].priority THEN <<ep>> \o s
    ELSE <<Head(s)>> \o InsertByPriority(ep, Tail(s), config)

RECURSIVE sorted_by_priority(_, _)
sorted_by_priority(eps, config) ==
    IF eps = <<>> THEN <<>>
    ELSE InsertByPriority(eps[Len(eps)],
                          sorted_by_priority(SubSeq(eps, 1, Len(eps) - 1), config),
                          config)

\* Variant: the remainder goes to one endpoint too many.
ExtraSlot_one_more(i, extra) == IF i <= extra THEN 1 ELSE 0

\* (1 if i < extra else 0), i counted from 0.
ExtraSlot(i, extra) == IF i < extra THEN 1 ELSE 0

\* _allocate_slots for the given active list, endpoint table and daily cap;
\* the dict is a function on the endpoint names it holds.
allocate_slots(active, config, daily_cap) ==
    LET IsFixed(ep) == config[ep].max_daily # NoMaxDaily
        IsFlexible(ep) == ~IsFixed(ep)
        fixed_eps == SelectSeq(active, IsFixed)
        flexible_eps == SelectSeq(active, IsFlexible)
        fixed_allocation == [ep \in Range(fixed_eps) |-> config[ep].max_daily]
        remaining == daily_cap - SumValues(fixed_allocation)
        n_flex == Len(flexible_eps)
        base == remaining \div n_flex
        extra == remaining % n_flex
        sorted_flex == sorted_by_priority(flexible_eps, config)
        \* a name listed twice keeps the value of its last assignment
        LastIndex(ep) == CHOOSE i \in DOMAIN sorted_flex :
                            /\ sorted_flex[i] = ep
                            /\ \A j \in DOMAIN sorted_flex : sorted_flex[j] = ep => j <= i
    IN  IF n_flex = 0 THEN fixed_allocation
        ELSE IF remaining <= 0
        THEN fixed_allocation @@ [ep \in Range(flexible_eps) |-> 0]
        ELSE fixed_allocation @@
             [ep \in Range(flexible_eps) |-> base + ExtraSlot(LastIndex(ep) - 1, extra)]

\* windows.get(window, windows["full_day"]), in minutes of the day
WindowRange(window) ==
    IF window = "market_hours" THEN <<9 * 60 + 30, 15 * 60 + 30>>
    ELSE <<7 * 60, 16 * 60 + 15>>

\* Python's round() of the fraction num / den: ties go to the even integer.
round_fraction(num, den) ==
    LET q == num \div den
        r == num % den
    IN  IF 2 * r < den THEN q
        ELSE IF 2 * r > den THEN q + 1
        ELSE IF q % 2 = 0 THEN q ELSE q + 1

\* Variant: the interval is (end - start) / n_slots.
generate_times_short(n_slots, window) ==
    LET start == WindowRange(window)[1]
        end == WindowRange(window)[2]
    IN  IF n_slots <= 0 THEN <<>>
        ELSE IF n_slots = 1 THEN << <<start \div 60, start % 60>> >>
        ELSE [k \in 1..n_slots |->
                LET t == round_fraction(start * n_slots + (k - 1) * (end - start),
                                        n_slots)
                IN  <<t \div 60, t % 60>>]

generate_times(n_slots, window) ==
    LET start == WindowRange(window)[1]
        end == WindowRange(window)[2]
    IN  IF n_slots <= 0 THEN <<>>
        ELSE IF n_slots = 1 THEN << <<start \div 60, start % 60>> >>
        ELSE [k \in 1..n_slots |->
                LET t == round_fraction(start * (n_slots - 1) + (k - 1) * (end - start),
                                        n_slots - 1)
                IN  <<t \div 60, t % 60>>]

\* job id f"{endpoint_name}_{hour:02d}{minute:02d}" as <<name, HHMM>>
JobId(endpoint_name, hm) == <<endpoint_name, hm[1] * 100 + hm[2]>>

CleanupJob == [id |-> <<"cleanup", -1>>, endpoint |-> "", api_method |-> "job_cleanup",
               market_hours_only |-> FALSE, day_of_week |-> ""]

\* scheduler.add_job(..., replace_existing=True) for each job of new
add_job_replacing(registered, new) ==
    {j \in registered : \A n \in new : n.id # j.id} \cup new

\* Variant: add_jobs() registers the endpoint jobs only.
add_jobs_without_cleanup(registered, active, config, daily_cap) ==
    LET allocation == allocate_slots(active, config, daily_cap)
        times(ep) ==
            IF config[ep].has_fixed_times THEN config[ep].fixed_times
            ELSE IF allocation[ep] > 0
            THEN generate_times(allocation[ep], config[ep].window)
            ELSE generate_times(2, config[ep].window)
        endpoint_jobs ==
            {[id |-> JobId(ep, times(ep)[k]), endpoint |-> ep,
              api_method |-> config[ep].api_method,
              market_hours_only |-> config[ep].market_hours_only,
              day_of_week |-> config[ep].day_of_week] :
                <<ep, k>> \in {x \in Range(active) \X (1..20) : x[2] \in DOMAIN times(x[1])}}
    IN  add_job_replacing(registered, endpoint_jobs)

\* The jobs registered after add_jobs() ran on the registered set.
add_jobs(registered, active, config, daily_cap) ==
    LET allocation == allocate_slots(active, config, daily_cap)
        times(ep) ==
            IF config[ep].has_fixed_times THEN config[ep].fixed_times
            ELSE IF allocation[ep] > 0
            THEN generate_times(allocation[ep], config[ep].window)
            ELSE generate_times(2, config[ep].window)
        endpoint_jobs ==
            {[id |-> JobId(ep, times(ep)[k]), endpoint |-> ep,
              api_method |-> config[ep].api_method,
              market_hours_only |-> config[ep].market_hours_only,
              day_of_week |-> config[ep].day_of_week] :
                <<ep, k>> \in {x \in Range(active) \X (1..20) : x[2] \in DOMAIN times(x[1])}}
    IN  add_job_replacing(add_job_replacing(registered, endpoint_jobs), {CleanupJob})

\* Variant: the old jobs are not removed before the new ones are added.
rebalance_schedule_keep(registered, is_running, active, config, daily_cap) ==
    IF ~is_running THEN registered
    ELSE add_jobs(registered, active, config, daily_cap)

\* Variant: the old jobs are removed and nothing is added yet.
rebalance_schedule_removed(registered, is_running, active, config, daily_cap) ==
    IF ~is_running THEN registered
    ELSE {j \in registered : j.id = CleanupJob.id}

\* The jobs registered after _rebalance_schedule().
rebalance_schedule(registered, is_running, active, config, daily_cap) ==
    IF ~is_running THEN registered
    ELSE add_jobs({j \in registered : j.id = CleanupJob.id}, active, config, daily_cap)

-----------------------------------------------------------------------------
(* The state after construction: empty tables, zeroed counters, every        *)
(* configured endpoint active, no coroutine in flight.                       *)

NoData == <<>>

\* args holds the arguments of a call that has no field of its own; propagated
\* says whether the call let an exception out to its caller.
NoOp == [op |-> "none", at |-> 0, data |-> NoData, endpoint |-> "", platform |-> "",
         args |-> <<>>, result |-> <<TRUE, "None">>, raised |-> FALSE,
         propagated |-> FALSE]

\* A coroutine awaiting its fetch; log_len is history: how many publishes had
\* been logged when the firing started.
NewTask(endpoint_name) ==
    [pc |-> "fetch", endpoint |-> endpoint_name, data |-> NoData, log_len |-> Len(pub_log)]

Without(s, t) == [i \in 1..(Len(s) - 1) |-> IF i < t THEN s[i] ELSE s[i + 1]]

InitStats == [total_posts |-> 0, successful_posts |-> 0, failed_posts |-> 0,
              skipped_duplicates |-> 0, rate_limit_blocks |-> 0]

InitStateAt(t) ==
    /\ now = t
    /\ ticks = 0
    /\ content_hashes = <<>>
    /\ twitter_posts = <<>>
    /\ stats = InitStats
    /\ tasks = <<>>
    /\ firings = 0
    /\ ENDPOINT_CONFIG = StaticEndpointConfig
    /\ active_endpoints = EndpointOrder
    /\ jobs = {}
    /\ running = FALSE
    /\ ops = 0
    /\ calls = 0
    /\ last_op = NoOp
    /\ record_calls = {}
    /\ pub_log = <<>>

InitState == InitStateAt(StartTime)

\* Time passes: the clock jumps by one of the deltas.
TickBy(deltas, max_ticks) ==
    /\ ticks < max_ticks
    /\ \E d \in deltas : now' = now + d
    /\ ticks' = ticks + 1
    /\ UNCHANGED <<content_hashes, twitter_posts, cfgVars, schedVars, allocVars,
                   calls, last_op, record_calls, pub_log>>

-----------------------------------------------------------------------------
(* The dedup store on its own: record_post and cleanup_old_hashes called     *)
(* with any payload, endpoint and platform, at any time.                     *)

DedupPayloads == {Payload(1, 1), PayloadSwapped(1, 1), Payload(1, 2)}
DedupEndpoints == {"benzinga_news", "yahoo_quote"}

DedupRecord ==
    /\ calls < MaxCalls
    /\ \E data \in DedupPayloads, endpoint \in DedupEndpoints, platform \in Platforms :
          /\ content_hashes' =
                 Deduplicator_record_post(content_hashes, data, endpoint, platform, now)
          /\ record_calls' = record_calls \cup {<<compute_hash(data), endpoint, platform>>}
          /\ LET error == record_post_error(content_hashes,
                                [content_hash |-> compute_hash(data)])
             IN  last_op' = [NoOp EXCEPT !.op = "record_post", !.at = now, !.data = data,
                                 !.endpoint = endpoint, !.platform = platform,
                                 !.raised = (content_hashes' = content_hashes),
                                 !.propagated = (error # "None"
                                                 /\ ~record_post_catches(error))]
    /\ calls' = calls + 1
    /\ UNCHANGED <<clockVars, twitter_posts, cfgVars, schedVars, allocVars, pub_log>>

DedupCleanup ==
    /\ calls < MaxCalls
    /\ content_hashes' = cleanup_old_hashes(content_hashes, now, RETENTION_DAYS)
    /\ last_op' = [NoOp EXCEPT !.op = "cleanup_old_hashes", !.at = now,
                            !.result = cleanup_returns(Len(content_hashes)
                                                       - Len(content_hashes'))]
    /\ calls' = calls + 1
    /\ UNCHANGED <<clockVars, twitter_posts, cfgVars, schedVars, allocVars,
                   record_calls, pub_log>>

DedupInit ==
    /\ InitState
    /\ max_per_minute = 1
    /\ max_per_day = 15
    /\ dry_run = FALSE
    /\ use_ai = TRUE

DedupTick == TickBy(RetentionDeltas, MaxTicks)

DedupNext == DedupRecord \/ DedupCleanup \/ DedupTick

DedupSpec == DedupInit /\ [][DedupNext]_vars

-----------------------------------------------------------------------------
(* _compute_hash on its own, called with any payload: objects of one or two  *)
(* levels whose keys were inserted in either order.                          *)

HashValues == 0..1

\* The content objects: the two keys in either insertion order.
HashContents ==
    {JsonMap(<< <<"articles", JsonInt(a)>>, <<"count", JsonInt(c)>> >>) :
        a \in HashValues, c \in HashValues}
    \cup {JsonMap(<< <<"count", JsonInt(c)>>, <<"articles", JsonInt(a)>> >>) :
        a \in HashValues, c \in HashValues}
    \cup {JsonInt(a) : a \in HashValues}

HashPayloads ==
    {<< <<"success", JsonInt(s)>>, <<"data", c>> >> : s \in HashValues, c \in HashContents}
    \cup {<< <<"data", c>>, <<"success", JsonInt(s)>> >> : s \in HashValues, c \in HashContents}

ComputeHash ==
    /\ calls < MaxCalls
    /\ \E data \in HashPayloads :
          last_op' = [NoOp EXCEPT !.op = "_compute_hash", !.data = data,
                                  !.result = compute_hash(data)]
    /\ calls' = calls + 1
    /\ UNCHANGED <<clockVars, content_hashes, twitter_posts, cfgVars, schedVars,
                   allocVars, record_calls, pub_log>>

HashInit ==
    /\ InitState
    /\ max_per_minute = 1
    /\ max_per_day = 1
    /\ dry_run = FALSE
    /\ use_ai = TRUE

HashNext == ComputeHash

HashSpec == HashInit /\ [][HashNext]_vars

-----------------------------------------------------------------------------
(* The rate limiter on its own: can_post, record_post and                    *)
(* cleanup_old_records called at any time, under small caps.                 *)

LimiterMaxPerMinute == 2
LimiterMaxPerDay == 3

LimiterCanPost ==
    /\ calls < MaxCalls
    /\ last_op' = [NoOp EXCEPT !.op = "can_post", !.at = now, !.result = can_post(twitter_posts, now)]
    /\ calls' = calls + 1
    /\ UNCHANGED <<clockVars, content_hashes, twitter_posts, cfgVars, schedVars,
                   allocVars, record_calls, pub_log>>

LimiterRecord ==
    /\ calls < MaxCalls
    /\ twitter_posts' = RateLimiter_record_post(twitter_posts, now)
    /\ last_op' = [NoOp EXCEPT !.op = "record_post", !.at = now]
    /\ calls' = calls + 1
    /\ UNCHANGED <<clockVars, content_hashes, cfgVars, schedVars, allocVars,
                   record_calls, pub_log>>

\* days as given to cleanup_old_records: the smallest the window arithmetic
\* allows, and the 7 of job_cleanup.
CleanupDays == {1, RETENTION_DAYS}

\* cleanup_old_records is called; the rows its DELETE removed are kept in
\* record_calls as <<"deleted", posted_at>>.
LimiterCleanup ==
    /\ calls < MaxCalls
    /\ \E days \in CleanupDays :
          /\ twitter_posts' = cleanup_old_records(twitter_posts, now, days)
          /\ last_op' = [NoOp EXCEPT !.op = "cleanup_old_records", !.at = now,
                                  !.args = <<days>>,
                                  !.result = cleanup_returns(Len(twitter_posts)
                                                             - Len(twitter_posts'))]
    /\ record_calls' = record_calls
            \cup {<<"deleted", twitter_posts[i]>> :
                     i \in {j \in DOMAIN twitter_posts :
                               \A k \in DOMAIN twitter_posts' :
                                   twitter_posts'[k] # twitter_posts[j]}}
    /\ calls' = calls + 1
    /\ UNCHANGED <<clockVars, content_hashes, cfgVars, schedVars, allocVars,
                   pub_log>>

\* max_wait_seconds as given: none at all, or the default.
MaxWaitChoices == {0, 120}

\* wait_if_needed is called; the clock moves by the time it slept.
LimiterWait ==
    /\ calls < MaxCalls
    /\ \E max_wait_seconds \in MaxWaitChoices :
          LET r == wait_if_needed(twitter_posts, now, max_wait_seconds)
          IN  /\ now' = now + r.slept
              /\ last_op' = [NoOp EXCEPT !.op = "wait_if_needed", !.at = now + r.slept,
                                      !.args = <<max_wait_seconds>>,
                                      !.result = <<r.returns, "None">>]
    /\ calls' = calls + 1
    /\ UNCHANGED <<ticks, content_hashes, twitter_posts, cfgVars, schedVars,
                   allocVars, record_calls, pub_log>>

LimiterInit ==
    /\ InitState
    /\ max_per_minute \in 1..LimiterMaxPerMinute
    /\ max_per_day \in 1..LimiterMaxPerDay
    /\ dry_run = FALSE
    /\ use_ai = TRUE

LimiterTick == TickBy(WindowDeltas, MaxTicks)

LimiterNext ==
    LimiterCanPost \/ LimiterRecord \/ LimiterCleanup \/ LimiterWait \/ LimiterTick

LimiterSpec == LimiterInit /\ [][LimiterNext]_vars

-----------------------------------------------------------------------------
(* The allocator and the job registry: start(), add_endpoint() and           *)
(* remove_endpoint() under any daily cap.                                    *)

CustomFlexible == Flexible(MARKET, "get_custom_feed", "market_hours", FALSE)
CustomFixed == Fixed("get_custom_feed", << <<12, 0>>, <<18, 0>> >>, 2, "")

AddChoices ==
    {<<"benzinga_news", StaticEndpointConfig["benzinga_news"]>>,
     <<"vix", StaticEndpointConfig["vix"]>>,
     <<"custom_feed", CustomFlexible>>,
     <<"custom_feed", CustomFixed>>}

RemoveChoices == Range(EndpointOrder) \cup {"custom_feed"}

RECURSIVE list_remove(_, _)
list_remove(s, x) ==
    IF s = <<>> THEN <<>>
    ELSE IF Head(s) = x THEN Tail(s)
    ELSE <<Head(s)>> \o list_remove(Tail(s), x)

start ==
    /\ ~running
    /\ jobs' = add_jobs(jobs, active_endpoints, ENDPOINT_CONFIG, max_per_day)
    /\ running' = TRUE
    /\ UNCHANGED <<clockVars, content_hashes, twitter_posts, cfgVars, schedVars,
                   ENDPOINT_CONFIG, active_endpoints, ops, calls, last_op,
                   record_calls, pub_log>>

add_endpoint ==
    /\ ops < MaxOps
    /\ \E choice \in AddChoices :
          LET endpoint_name == choice[1]
              config == choice[2]
          IN  /\ ENDPOINT_CONFIG' =
                     [ep \in DOMAIN ENDPOINT_CONFIG \cup {endpoint_name} |->
                         IF ep = endpoint_name THEN config ELSE ENDPOINT_CONFIG[ep]]
              /\ active_endpoints' = Append(active_endpoints, endpoint_name)
              /\ jobs' = rebalance_schedule(jobs, running, active_endpoints',
                                            ENDPOINT_CONFIG', max_per_day)
    /\ ops' = ops + 1
    /\ UNCHANGED <<clockVars, content_hashes, twitter_posts, cfgVars, schedVars,
                   running, calls, last_op, record_calls, pub_log>>

remove_endpoint ==
    /\ ops < MaxOps
    /\ \E endpoint_name \in RemoveChoices :
          IF endpoint_name \in Range(active_endpoints)
          THEN /\ active_endpoints' = list_remove(active_endpoints, endpoint_name)
               /\ jobs' = rebalance_schedule(jobs, running, active_endpoints',
                                             ENDPOINT_CONFIG, max_per_day)
          ELSE UNCHANGED <<active_endpoints, jobs>>
    /\ ops' = ops + 1
    /\ UNCHANGED <<clockVars, content_hashes, twitter_posts, cfgVars, schedVars,
                   ENDPOINT_CONFIG, running, calls, last_op, record_calls, pub_log>>

AllocInit ==
    /\ InitState
    /\ max_per_minute = 1
    /\ max_per_day \in 0..MaxDailyCap
    /\ dry_run = FALSE
    /\ use_ai = TRUE

AllocNext == start \/ add_endpoint \/ remove_endpoint

AllocSpec == AllocInit /\ [][AllocNext]_vars

-----------------------------------------------------------------------------
(* _generate_times on its own, called with any slot count and window name.   *)

MaxSlots == 40

WindowNames == {"full_day", "market_hours", "after_hours"}

GenerateTimes ==
    /\ \E n_slots \in 0..MaxSlots, window \in WindowNames :
          last_op' = [NoOp EXCEPT !.op = "generate_times",
                                  !.args = <<n_slots, window>>,
                                  !.result = generate_times(n_slots, window)]
    /\ UNCHANGED <<clockVars, content_hashes, twitter_posts, cfgVars, schedVars,
                   allocVars, calls, record_calls, pub_log>>

TimesInit ==
    /\ InitState
    /\ max_per_minute = 1
    /\ max_per_day = 15
    /\ dry_run = FALSE
    /\ use_ai = TRUE

TimesNext == GenerateTimes

TimesSpec == TimesInit /\ [][TimesNext]_vars

-----------------------------------------------------------------------------
(* The publish pipeline: OptimalScheduler._execute_job and _post_content.    *)
(* A coroutine runs from one await to the next in one step; the awaits are   *)
(* the fetch, the chart download and text generation, and                    *)
(* discord_client.post_embed.  The Twitter half has no await in it.          *)

MarketOpen == 9 * 3600 + 30 * 60    \* config.market_open_hour / _minute
MarketClose == 16 * 3600            \* config.market_close_hour / _minute

\* Variant: the close of the market is outside the window.
is_market_hours_before_close(t) ==
    LET weekday == (t \div DAY_SECONDS) % 7
        current_time == t % DAY_SECONDS
    IN  IF weekday >= 5 THEN FALSE
        ELSE MarketOpen <= current_time /\ current_time < MarketClose

is_market_hours(t) ==
    LET weekday == (t \div DAY_SECONDS) % 7
        current_time == t % DAY_SECONDS
    IN  IF weekday >= 5 THEN FALSE
        ELSE MarketOpen <= current_time /\ current_time <= MarketClose

\* Endpoints that have an entry in empty_checks.
EmptyChecked ==
    {"benzinga_news", "benzinga_ratings", "benzinga_earnings", "reddit_trending",
     "top_gainers", "sec_insider", "economic_calendar", "yahoo_quote",
     "sector_performance"}

\* Variant: _has_content takes every response to have content.
has_content_always(endpoint_name, data) == TRUE

has_content(endpoint_name, data) ==
    LET content == dict_get(data, "data", JsonInt(0))
    IN  IF endpoint_name \in EmptyChecked THEN content # JsonInt(0) ELSE TRUE

\* A logged publish.  again: when it happened, a publish of the same triple
\* made before this firing started was still unswept.  after_discord: the
\* same firing had first published the payload to Discord and stored its
\* (payload, source, discord) row.
LogEntry(log, task, platform, t, after_discord) ==
    LET h == compute_hash(task.data)
    IN  [content_hash |-> h, endpoint |-> task.endpoint, platform |-> platform,
         at |-> t, swept |-> FALSE, after_discord |-> after_discord,
         again |-> \E i \in DOMAIN log :
                      /\ i <= task.log_len
                      /\ log[i].content_hash = h
                      /\ log[i].endpoint = task.endpoint
                      /\ log[i].platform = platform
                      /\ ~log[i].swept]

Bump(st, counter) == [st EXCEPT ![counter] = @ + 1]

\* The Twitter half with the ledger row written before post_tweet is called.
twitter_branch_record_first(db, posts, st, log, task, t, tweet_ok, on_discord) ==
    IF is_duplicate(db, task.data, task.endpoint, "twitter")
    THEN [db |-> db, posts |-> posts, log |-> log,
          st |-> Bump(st, "skipped_duplicates")]
    ELSE IF ~can_post(posts, t)[1]
    THEN [db |-> db, posts |-> posts, log |-> log,
          st |-> Bump(st, "rate_limit_blocks")]
    ELSE IF dry_run
    THEN [db |-> db, posts |-> posts, log |-> log,
          st |-> Bump(st, "successful_posts")]
    ELSE IF tweet_ok
    THEN [db |-> Deduplicator_record_post(db, task.data, task.endpoint, "twitter", t),
          posts |-> RateLimiter_record_post(posts, t),
          log |-> Append(log, LogEntry(log, task, "twitter", t, on_discord)),
          st |-> Bump(st, "successful_posts")]
    ELSE [db |-> db, posts |-> RateLimiter_record_post(posts, t), log |-> log,
          st |-> Bump(st, "failed_posts")]

\* The Twitter half with the rate limiter consulted before the duplicate check.
twitter_branch_limit_first(db, posts, st, log, task, t, tweet_ok, on_discord) ==
    IF ~can_post(posts, t)[1]
    THEN [db |-> db, posts |-> posts, log |-> log,
          st |-> Bump(st, "rate_limit_blocks")]
    ELSE IF is_duplicate(db, task.data, task.endpoint, "twitter")
    THEN [db |-> db, posts |-> posts, log |-> log,
          st |-> Bump(st, "skipped_duplicates")]
    ELSE IF dry_run
    THEN [db |-> db, posts |-> posts, log |-> log,
          st |-> Bump(st, "successful_posts")]
    ELSE IF tweet_ok
    THEN [db |-> Deduplicator_record_post(db, task.data, task.endpoint, "twitter", t),
          posts |-> RateLimiter_record_post(posts, t),
          log |-> Append(log, LogEntry(log, task, "twitter", t, on_discord)),
          st |-> Bump(st, "successful_posts")]
    ELSE [db |-> db, posts |-> posts, log |-> log,
          st |-> Bump(st, "failed_posts")]

\* The Twitter half with a denial by the rate limiter counted as a failed post.
twitter_branch_block_as_failure(db, posts, st, log, task, t, tweet_ok, on_discord) ==
    IF is_duplicate(db, task.data, task.endpoint, "twitter")
    THEN [db |-> db, posts |-> posts, log |-> log,
          st |-> Bump(st, "skipped_duplicates")]
    ELSE IF ~can_post(posts, t)[1]
    THEN [db |-> db, posts |-> posts, log |-> log,
          st |-> Bump(st, "failed_posts")]
    ELSE IF dry_run
    THEN [db |-> db, posts |-> posts, log |-> log,
          st |-> Bump(st, "successful_posts")]
    ELSE IF tweet_ok
    THEN [db |-> Deduplicator_record_post(db, task.data, task.endpoint, "twitter", t),
          posts |-> RateLimiter_record_post(posts, t),
          log |-> Append(log, LogEntry(log, task, "twitter", t, on_discord)),
          st |-> Bump(st, "successful_posts")]
    ELSE [db |-> db, posts |-> posts, log |-> log,
          st |-> Bump(st, "failed_posts")]

\* The Twitter half of _post_content (scheduler_v2.py:406-436), run on the
\* tables, counters and log as the Discord half left them.  tweet_ok is what
\* post_tweet returns; the call is synchronous, so nothing else runs meanwhile.
twitter_branch(db, posts, st, log, task, t, tweet_ok, on_discord) ==
    IF is_duplicate(db, task.data, task.endpoint, "twitter")
    THEN [db |-> db, posts |-> posts, log |-> log,
          st |-> Bump(st, "skipped_duplicates")]
    ELSE IF ~can_post(posts, t)[1]
    THEN [db |-> db, posts |-> posts, log |-> log,
          st |-> Bump(st, "rate_limit_blocks")]
    ELSE IF dry_run
    THEN [db |-> db, posts |-> posts, log |-> log,
          st |-> Bump(st, "successful_posts")]
    ELSE IF tweet_ok
    THEN [db |-> Deduplicator_record_post(db, task.data, task.endpoint, "twitter", t),
          posts |-> RateLimiter_record_post(posts, t),
          log |-> Append(log, LogEntry(log, task, "twitter", t, on_discord)),
          st |-> Bump(st, "successful_posts")]
    ELSE [db |-> db, posts |-> posts, log |-> log,
          st |-> Bump(st, "failed_posts")]

\* The Twitter half when its first statement, the is_duplicate query, may
\* raise: the except clause at scheduler_v2.py:434-436 counts a failed post.
\* outcome is "raise", or what post_tweet returns ("true", "false").
twitter_half(db, posts, st, log, task, t, outcome, on_discord) ==
    IF outcome = "raise"
    THEN [db |-> db, posts |-> posts, log |-> log, st |-> Bump(st, "failed_posts")]
    ELSE twitter_branch(db, posts, st, log, task, t, outcome = "true", on_discord)

TweetOutcomes == {"true", "false", "raise"}

\* The steps of a firing that can raise.
FailureSteps == {"fetch", "generate", "discord", "twitter"}

\* The try blocks of _post_content: scheduler_v2.py:365-404 around the
\* Discord half and 407-436 around the Twitter half.
post_content_catches(step) == step \in {"discord", "twitter"}

\* Variant: _execute_job has no except clause.
execute_job_catches_nothing(step) == FALSE

\* try / except Exception of _execute_job (scheduler_v2.py:504-524), around
\* the method lookup, the fetch and _post_content.
execute_job_catches(step) == step \in FailureSteps

\* What the caller of _execute_job sees of an exception raised in the step:
\* nothing when an except clause on the way has swallowed it, the exception
\* otherwise.
execute_job_failure(step) ==
    IF post_content_catches(step) \/ execute_job_catches(step)
    THEN last_op
    ELSE [NoOp EXCEPT !.op = "_execute_job", !.raised = TRUE, !.propagated = TRUE]

FiredEndpoints == {"benzinga_news", "yahoo_quote"}

\* What the manual trigger maps each name to (health.py:88-100).
TriggerMethod(endpoint) ==
    IF endpoint = "sec_insider" THEN "get_sec_insider"
    ELSE StaticEndpointConfig[endpoint].api_method

\* The methods APIClient has.
ApiMethods == {StaticEndpointConfig[ep].api_method : ep \in DOMAIN StaticEndpointConfig}

TriggerNames == FiredEndpoints \cup {"sec_insider", "no_such_endpoint"}

FetchResults == {Payload(1, 1), Payload(1, 0), Payload(0, 1)}


\* _execute_job up to its first await, the fetch
execute_job(endpoint_name, api_method_name, market_hours_only) ==
    /\ IF market_hours_only /\ ~is_market_hours(now)
       THEN UNCHANGED <<tasks, firings>>
       ELSE IF api_method_name \notin ApiMethods
       THEN UNCHANGED <<tasks, firings>>
       ELSE /\ tasks' = Append(tasks, NewTask(endpoint_name))
            /\ firings' = firings + 1
    /\ UNCHANGED <<clockVars, content_hashes, twitter_posts, cfgVars, stats,
                   allocVars, calls, last_op, record_calls, pub_log>>

\* A registered job fires.
scheduled_firing ==
    /\ running
    /\ firings < MaxFirings
    /\ \E job \in jobs :
          /\ job.endpoint \in FiredEndpoints
          /\ execute_job(job.endpoint, job.api_method, job.market_hours_only)

\* The names trigger_handler's table has an entry for (health.py:88-100).
TriggerTable == DOMAIN StaticEndpointConfig

\* trigger_handler for one request: 404 for a name not in the table, else
\* _execute_job with the table's method name and market_hours_only False.
trigger_request(endpoint) ==
    IF endpoint \notin TriggerTable
    THEN UNCHANGED vars
    ELSE execute_job(endpoint, TriggerMethod(endpoint), FALSE)

\* POST /trigger/{endpoint}
trigger_handler ==
    /\ running
    /\ firings < MaxFirings
    /\ \E endpoint \in TriggerNames : trigger_request(endpoint)

\* Variant: _post_content does not look at the success flag.
response_success_ignored(data) == TRUE

\* data.get("success") as _post_content tests it (scheduler_v2.py:331).
response_success(data) == dict_get(data, "success", JsonInt(0)) # JsonInt(0)

\* The early returns of _post_content (scheduler_v2.py:331-339).
post_content_returns_early(endpoint_name, data) ==
    ~response_success(data) \/ ~has_content(endpoint_name, data)

\* await api_method() raises, or returns data; _post_content runs up to the
\* chart download and text generation.  A firing that stops here leaves no
\* trace.
fetch_returns_in(t, raised, data) ==
    /\ tasks[t].pc = "fetch"
    /\ IF raised
       THEN /\ tasks' = Without(tasks, t)
            /\ firings' = firings - 1
            /\ last_op' = execute_job_failure("fetch")
       ELSE /\ IF post_content_returns_early(tasks[t].endpoint, data)
               THEN /\ tasks' = Without(tasks, t)
                    /\ firings' = firings - 1
               ELSE /\ tasks' = [tasks EXCEPT ![t].pc = "generate", ![t].data = data]
                    /\ UNCHANGED firings
            /\ UNCHANGED last_op
    /\ UNCHANGED <<clockVars, content_hashes, twitter_posts, cfgVars, stats,
                   allocVars, calls, pub_log>>

fetch_returns ==
    \E t \in DOMAIN tasks, raised \in BOOLEAN, data \in FetchResults :
        /\ fetch_returns_in(t, raised, data)
        /\ UNCHANGED record_calls

\* The chart download or the text generation raises, and the firing stops
\* without a trace; or content is generated, the Discord duplicate check
\* runs, and either the coroutine awaits post_embed or goes on through the
\* Twitter half, where tweet is what happens.
content_generated_in(t, raised, tweet) ==
    /\ tasks[t].pc = "generate"
    /\ IF raised
       THEN /\ tasks' = Without(tasks, t)
            /\ firings' = firings - 1
            /\ last_op' = execute_job_failure("generate")
            /\ UNCHANGED <<content_hashes, twitter_posts, stats, pub_log>>
       ELSE LET st == Bump(stats, "total_posts") IN
            /\ IF is_duplicate(content_hashes, tasks[t].data, tasks[t].endpoint,
                               "discord")
               THEN LET r == twitter_half(content_hashes, twitter_posts,
                                 Bump(st, "skipped_duplicates"), pub_log, tasks[t],
                                 now, tweet, FALSE)
                    IN  /\ content_hashes' = r.db
                        /\ twitter_posts' = r.posts
                        /\ stats' = r.st
                        /\ pub_log' = r.log
                        /\ tasks' = Without(tasks, t)
                        /\ last_op' = IF tweet = "raise"
                                      THEN execute_job_failure("twitter")
                                      ELSE last_op
               ELSE /\ tasks' = [tasks EXCEPT ![t].pc = "discord"]
                    /\ stats' = st
                    /\ UNCHANGED <<content_hashes, twitter_posts, pub_log, last_op>>
            /\ UNCHANGED firings
    /\ UNCHANGED <<clockVars, cfgVars, allocVars, calls, record_calls>>

content_generated ==
    \E t \in DOMAIN tasks, raised \in BOOLEAN, tweet \in TweetOutcomes :
        content_generated_in(t, raised, tweet)

\* What the Discord half can do: post_embed returns True or False (True only
\* in a dry run), or the half raises.
DiscordOutcomes == IF dry_run THEN {"true", "raise"} ELSE {"true", "false", "raise"}

\* post_embed returns True or False, or the Discord half raises; then the
\* Twitter half runs, where tweet is what happens.
discord_returns_in(t, outcome, tweet) ==
    /\ tasks[t].pc = "discord"
    /\ LET raised == outcome = "raise"
           published == outcome = "true" /\ ~dry_run
           db1 == IF raised THEN content_hashes
                  ELSE Deduplicator_record_post(content_hashes, tasks[t].data,
                                                tasks[t].endpoint, "discord", now)
           st1 == IF raised THEN Bump(stats, "failed_posts") ELSE stats
           log1 == IF published
                   THEN Append(pub_log,
                               LogEntry(pub_log, tasks[t], "discord", now, FALSE))
                   ELSE pub_log
           recorded == published /\ is_duplicate(db1, tasks[t].data,
                                                  tasks[t].endpoint, "discord")
           r == twitter_half(db1, twitter_posts, st1, log1, tasks[t], now,
                             tweet, recorded)
       IN  /\ content_hashes' = r.db
           /\ twitter_posts' = r.posts
           /\ stats' = r.st
           /\ pub_log' = r.log
           /\ tasks' = Without(tasks, t)
           /\ last_op' = IF raised THEN execute_job_failure("discord")
                         ELSE IF tweet = "raise"
                         THEN execute_job_failure("twitter")
                         ELSE last_op
    /\ UNCHANGED <<clockVars, cfgVars, firings, allocVars, calls, record_calls>>

discord_returns ==
    \E t \in DOMAIN tasks, outcome \in DiscordOutcomes, tweet \in TweetOutcomes :
        discord_returns_in(t, outcome, tweet)

\* The midnight job.
job_cleanup ==
    /\ running
    /\ CleanupJob \in jobs
    /\ twitter_posts' = cleanup_old_records(twitter_posts, now, RETENTION_DAYS)
    /\ content_hashes' = cleanup_old_hashes(content_hashes, now, RETENTION_DAYS)
    /\ pub_log' = [i \in DOMAIN pub_log |->
                      IF pub_log[i].at < now - RETENTION_DAYS * DAY_SECONDS
                      THEN [pub_log[i] EXCEPT !.swept = TRUE] ELSE pub_log[i]]
    /\ UNCHANGED <<clockVars, cfgVars, schedVars, allocVars, calls, last_op, record_calls>>

\* The process stops and a new one is started on the same database file:
\* the coroutines in flight, the counters and the (in-memory) job store are
\* gone, the class-level table is the static one again, and the constructors
\* of RateLimiter and Deduplicator run _init_database.
restart ==
    /\ running
    /\ content_hashes' = init_database(content_hashes)
    /\ twitter_posts' = init_database(twitter_posts)
    /\ stats' = InitStats
    /\ tasks' = <<>>
    /\ jobs' = {}
    /\ running' = FALSE
    /\ ENDPOINT_CONFIG' = StaticEndpointConfig
    /\ active_endpoints' = EndpointOrder
    /\ UNCHANGED <<clockVars, cfgVars, firings, ops, calls, last_op, record_calls, pub_log>>

SpecMaxPerDay == 2
SpecMaxTicks == 1

Init ==
    /\ InitState
    /\ max_per_minute = 1
    /\ max_per_day \in {1, SpecMaxPerDay}
    /\ dry_run \in BOOLEAN
    /\ use_ai = TRUE

\* A minute reaches the edge of the 60 s window; eight days pass the 24 h
\* window and the retention cutoff.
SpecDeltas == {MINUTE_SECONDS, (RETENTION_DAYS + 1) * DAY_SECONDS}

Tick == TickBy(SpecDeltas, SpecMaxTicks)

Next ==
    \/ start
    \/ scheduled_firing
    \/ trigger_handler
    \/ fetch_returns
    \/ content_generated
    \/ discord_returns
    \/ job_cleanup
    \/ Tick

Spec == Init /\ [][Next]_vars

\* Eight days pass: the stored rows fall behind the retention cutoff.
RestartTick == TickBy({(RETENTION_DAYS + 1) * DAY_SECONDS}, SpecMaxTicks)

\* The pipeline of scheduled firings across process restarts.
RestartNext ==
    \/ start
    \/ scheduled_firing
    \/ fetch_returns
    \/ content_generated
    \/ discord_returns
    \/ job_cleanup
    \/ restart
    \/ RestartTick

RestartInit ==
    /\ InitState
    /\ max_per_minute = 1
    /\ max_per_day = SpecMaxPerDay
    /\ dry_run = FALSE
    /\ use_ai = TRUE

RestartSpec == RestartInit /\ [][RestartNext]_vars

\* Scheduled firings at any time of the week: the process is started on a
\* Monday, a Friday, a Saturday or a Sunday, a second before the open, at
\* the open, at noon, at the close or a second after it.
MarketDays == {0, 4, 5, 6}
MarketClockTimes == {MarketOpen - 1, MarketOpen, 12 * 3600, MarketClose, MarketClose + 1}

MarketInit ==
    /\ \E day \in MarketDays, clock \in MarketClockTimes :
          InitStateAt(day * DAY_SECONDS + clock)
    /\ max_per_minute = 1
    /\ max_per_day = SpecMaxPerDay
    /\ dry_run = FALSE
    /\ use_ai = TRUE

MarketNext ==
    \/ start
    \/ scheduled_firing
    \/ fetch_returns

MarketSpec == MarketInit /\ [][MarketNext]_vars

\* How a fetch ended, for the record: the call raised, the response reports
\* failure, the response is empty, or the firing goes on.
fetch_ending(raised, data) ==
    IF raised THEN "raised"
    ELSE IF dict_get(data, "success", JsonInt(0)) = JsonInt(0) THEN "failed"
    ELSE IF dict_get(data, "data", JsonInt(0)) = JsonInt(0) THEN "empty"
    ELSE "content"

\* fetch_returns with the ending of the fetch kept in record_calls.
fetch_watched ==
    \E t \in DOMAIN tasks, raised \in BOOLEAN, data \in FetchResults :
        /\ fetch_returns_in(t, raised, data)
        /\ record_calls' = record_calls
                            \cup {fetch_ending(raised, data)}

\* The pipeline of scheduled firings with the endings of the fetches on
\* record.
FetchNext ==
    \/ start
    \/ scheduled_firing
    \/ fetch_watched
    \/ content_generated
    \/ discord_returns

FetchSpec == RestartInit /\ [][FetchNext]_vars

-----------------------------------------------------------------------------
(* The interval-based TradingBotScheduler (scheduler.py): job_<source> and   *)
(* its _post_content.  A coroutine runs from one await to the next in one    *)
(* step; the awaits are the fetch, generate_discord_description,             *)
(* post_embed and generate_twitter_post (the generation calls only with      *)
(* use_ai).  The jobs taken are two without a chart and without a            *)
(* market-hours test; one job has at most one run in flight.                 *)

IntervalEndpoints == {"vix", "sec_insider"}

\* post_tweet has returned: the two records and the counters.
tb_publish(db, posts, st, log, task, t, tweet) ==
    IF tweet = "true"
    THEN [db |-> Deduplicator_record_post(db, task.data, task.endpoint, "twitter", t),
          posts |-> RateLimiter_record_post(posts, t),
          st |-> Bump(Bump(st, "successful_posts"), "total_posts"),
          log |-> IF dry_run THEN log
                  ELSE Append(log, LogEntry(log, task, "twitter", t, FALSE)),
          suspended |-> FALSE]
    ELSE [db |-> db, posts |-> posts,
          st |-> Bump(Bump(st, "failed_posts"), "total_posts"),
          log |-> log, suspended |-> FALSE]

\* The Twitter part of _post_content up to its first await: can_post, the
\* duplicate test, and with use_ai the suspension at generate_twitter_post.
tb_twitter_part(db, posts, st, log, task, t, tweet) ==
    IF ~can_post(posts, t)[1]
    THEN [db |-> db, posts |-> posts, st |-> Bump(st, "rate_limit_blocks"),
          log |-> log, suspended |-> FALSE]
    ELSE IF is_duplicate(db, task.data, task.endpoint, "twitter")
    THEN [db |-> db, posts |-> posts,
          st |-> Bump(Bump(st, "skipped_duplicates"), "total_posts"),
          log |-> log, suspended |-> FALSE]
    ELSE IF use_ai
    THEN [db |-> db, posts |-> posts, st |-> st, log |-> log, suspended |-> TRUE]
    ELSE tb_publish(db, posts, st, log, task, t, tweet)

\* The run goes on from the Discord part into the Twitter part and either
\* suspends there or ends.
tb_continue(t, task, r) ==
    /\ content_hashes' = r.db
    /\ twitter_posts' = r.posts
    /\ stats' = r.st
    /\ pub_log' = r.log
    /\ tasks' = IF r.suspended
                THEN [tasks EXCEPT ![t] = [task EXCEPT !.pc = "twitter_text"]]
                ELSE Without(tasks, t)

tb_job_fires ==
    /\ firings < MaxFirings
    /\ \E endpoint \in IntervalEndpoints :
          /\ \A t \in DOMAIN tasks : tasks[t].endpoint # endpoint
          /\ tasks' = Append(tasks, NewTask(endpoint))
    /\ firings' = firings + 1
    /\ UNCHANGED <<clockVars, content_hashes, twitter_posts, cfgVars, stats,
                   allocVars, calls, last_op, record_calls, pub_log>>

tb_fetch_returns_in(t, raised, data, tweet) ==
    /\ tasks[t].pc = "fetch"
    /\ LET task == [tasks[t] EXCEPT !.data = data] IN
       IF raised
       THEN /\ tasks' = Without(tasks, t)
            /\ UNCHANGED <<content_hashes, twitter_posts, stats, pub_log>>
       ELSE IF is_duplicate(content_hashes, data, task.endpoint, "discord")
       THEN tb_continue(t, task,
                tb_twitter_part(content_hashes, twitter_posts,
                                Bump(stats, "skipped_duplicates"), pub_log, task,
                                now, tweet))
       ELSE /\ tasks' = [tasks EXCEPT ![t] =
                            [task EXCEPT !.pc = IF use_ai THEN "discord_text"
                                                ELSE "discord"]]
            /\ UNCHANGED <<content_hashes, twitter_posts, stats, pub_log>>
    /\ UNCHANGED <<clockVars, cfgVars, firings, allocVars, calls, last_op,
                   record_calls>>

tb_fetch_returns ==
    \E t \in DOMAIN tasks, raised \in BOOLEAN, data \in FetchResults,
       tweet \in {"true", "false"} :
        tb_fetch_returns_in(t, raised, data, tweet)

tb_discord_text_returns_in(t, raised, tweet) ==
    /\ tasks[t].pc = "discord_text"
    /\ IF raised
       THEN tb_continue(t, tasks[t],
                tb_twitter_part(content_hashes, twitter_posts,
                                Bump(stats, "failed_posts"), pub_log, tasks[t],
                                now, tweet))
       ELSE /\ tasks' = [tasks EXCEPT ![t].pc = "discord"]
            /\ UNCHANGED <<content_hashes, twitter_posts, stats, pub_log>>
    /\ UNCHANGED <<clockVars, cfgVars, firings, allocVars, calls, last_op,
                   record_calls>>

tb_discord_text_returns ==
    \E t \in DOMAIN tasks, raised \in BOOLEAN, tweet \in {"true", "false"} :
        tb_discord_text_returns_in(t, raised, tweet)

tb_discord_returns_in(t, outcome, tweet) ==
    /\ tasks[t].pc = "discord"
    /\ LET success == outcome = "true"
           db1 == IF success
                  THEN Deduplicator_record_post(content_hashes, tasks[t].data,
                                                tasks[t].endpoint, "discord", now)
                  ELSE content_hashes
           st1 == IF success THEN Bump(stats, "successful_posts")
                  ELSE Bump(stats, "failed_posts")
           log1 == IF success /\ ~dry_run
                   THEN Append(pub_log,
                               LogEntry(pub_log, tasks[t], "discord", now, FALSE))
                   ELSE pub_log
       IN  tb_continue(t, tasks[t],
               tb_twitter_part(db1, twitter_posts, st1, log1, tasks[t], now, tweet))
    /\ UNCHANGED <<clockVars, cfgVars, firings, allocVars, calls, last_op,
                   record_calls>>

tb_discord_returns ==
    \E t \in DOMAIN tasks, outcome \in DiscordOutcomes, tweet \in {"true", "false"} :
        tb_discord_returns_in(t, outcome, tweet)

tb_twitter_text_returns_in(t, raised, tweet) ==
    /\ tasks[t].pc = "twitter_text"
    /\ tb_continue(t, tasks[t],
           IF raised
           THEN [db |-> content_hashes, posts |-> twitter_posts,
                 st |-> Bump(Bump(stats, "failed_posts"), "total_posts"),
                 log |-> pub_log, suspended |-> FALSE]
           ELSE tb_publish(content_hashes, twitter_posts, stats, pub_log,
                           tasks[t], now, tweet))
    /\ UNCHANGED <<clockVars, cfgVars, firings, allocVars, calls, last_op,
                   record_calls>>

tb_twitter_text_returns ==
    \E t \in DOMAIN tasks, raised \in BOOLEAN, tweet \in {"true", "false"} :
        tb_twitter_text_returns_in(t, raised, tweet)

IntervalDeltas == {10, MINUTE_SECONDS}

IntervalTick == TickBy(IntervalDeltas, SpecMaxTicks)

IntervalInit ==
    /\ InitState
    /\ max_per_minute = 1
    /\ max_per_day \in {1, SpecMaxPerDay}
    /\ dry_run = FALSE
    /\ use_ai \in BOOLEAN

IntervalNext ==
    \/ tb_job_fires
    \/ tb_fetch_returns
    \/ tb_discord_text_returns
    \/ tb_discord_returns
    \/ tb_twitter_text_returns
    \/ IntervalTick

IntervalSpec == IntervalInit /\ [][IntervalNext]_vars

-----------------------------------------------------------------------------
(* Properties of the dedup store (checked under DedupSpec).                  *)

DedupTriples ==
    {<<data, endpoint, platform>> :
        data \in DedupPayloads, endpoint \in DedupEndpoints, platform \in Platforms}

Called(data, endpoint, platform) ==
    <<compute_hash(data), endpoint, platform>> \in record_calls

RowsOf(db, content_hash, endpoint, platform) ==
    {i \in DOMAIN db : /\ db[i].content_hash = content_hash
                       /\ db[i].endpoint = endpoint
                       /\ db[i].platform = platform}

\* C3: is_duplicate(payload, source, platform) is false while no record_post
\* was made for that triple, and is true right after
\* record_post(payload, source, platform) returns, whatever else the store
\* already holds.
C3_IsDuplicateFollowsRecord ==
    /\ \A x \in DedupTriples :
          ~Called(x[1], x[2], x[3]) => ~is_duplicate(content_hashes, x[1], x[2], x[3])
    /\ last_op.op = "record_post" =>
          is_duplicate(content_hashes, last_op.data, last_op.endpoint, last_op.platform)

\* C4: right after record_post(p, s, f), every other triple (p, s2, f2) of the
\* same payload for which no record_post was made is still not a duplicate.
C4_RecordLeavesOtherTriples ==
    last_op.op = "record_post" =>
        \A endpoint \in DedupEndpoints, platform \in Platforms :
            (/\ (endpoint # last_op.endpoint \/ platform # last_op.platform)
             /\ ~Called(last_op.data, endpoint, platform))
            => ~is_duplicate(content_hashes, last_op.data, endpoint, platform)

\* C4 witness: record_post(p, s, f) has just stored its row while the store
\* already held another payload's row, and some other triple of p was never
\* recorded.
C4_Witness ==
    /\ last_op.op = "record_post"
    /\ ~last_op.raised
    /\ Len(content_hashes) >= 2
    /\ is_duplicate(content_hashes, last_op.data, last_op.endpoint, last_op.platform)
    /\ \E endpoint \in DedupEndpoints, platform \in Platforms :
          /\ (endpoint # last_op.endpoint \/ platform # last_op.platform)
          /\ ~Called(last_op.data, endpoint, platform)

\* C20: record_post for a triple that is already in the store lets no
\* exception out to its caller and leaves the store as it was.
C20_RecordOfPresentTripleIsNoOp ==
    [][(/\ last_op'.op = "record_post"
        /\ calls' = calls + 1
        /\ is_duplicate(content_hashes, last_op'.data, last_op'.endpoint,
                        last_op'.platform))
       => (content_hashes' = content_hashes /\ ~last_op'.propagated)]_vars

\* C20 witness: record_post has just been called for a triple whose row was
\* already stored; the INSERT was refused.
C20_Witness ==
    /\ last_op.op = "record_post"
    /\ last_op.raised
    /\ RowsOf(content_hashes, compute_hash(last_op.data), last_op.endpoint,
              last_op.platform) # {}

\* C5: after any sequence of record_post and cleanup_old_hashes calls the
\* store holds at most one row per (fingerprint, source, platform) triple.
C5_AtMostOneRowPerTriple ==
    \A i, j \in DOMAIN content_hashes :
        (/\ content_hashes[i].content_hash = content_hashes[j].content_hash
         /\ content_hashes[i].endpoint = content_hashes[j].endpoint
         /\ content_hashes[i].platform = content_hashes[j].platform)
        => i = j

\* C5 witness: record_post was just called for a triple whose row is already
\* in the store, next to a row of another payload.
C5_Witness ==
    /\ last_op.op = "record_post"
    /\ last_op.raised
    /\ Len(content_hashes) >= 2
    /\ Cardinality(RowsOf(content_hashes, compute_hash(last_op.data),
                          last_op.endpoint, last_op.platform)) = 1

\* C32: cleanup_old_hashes(days) deletes exactly the rows whose posted_at is
\* older than now minus days, keeps every other row as it is, and returns
\* the number of rows it deleted.
C32_SweepDeletesOldAndReturnsCount ==
    [][(last_op'.op = "cleanup_old_hashes" /\ calls' = calls + 1)
       => LET cutoff == now - RETENTION_DAYS * DAY_SECONDS
              old == {i \in DOMAIN content_hashes : content_hashes[i].posted_at < cutoff}
          IN  /\ content_hashes' =
                     SelectSeq(content_hashes, LAMBDA row : row.posted_at >= cutoff)
              /\ ~last_op'.result.is_none
              /\ last_op'.result.value = Cardinality(old)]_vars

-----------------------------------------------------------------------------
(* Properties of the rate limiter (checked under LimiterSpec).               *)

\* Ledger rows with timestamp in (t - width, t].
RowsInWindow(posts, t, width) ==
    {i \in DOMAIN posts : t - width < posts[i] /\ posts[i] <= t}

MinuteCapReached(t) ==
    Cardinality(RowsInWindow(twitter_posts, t, MINUTE_SECONDS)) >= max_per_minute

DayCapReached(t) ==
    Cardinality(RowsInWindow(twitter_posts, t, DAY_SECONDS)) >= max_per_day

\* C7: can_post() at time t returns (False, per-minute reason) iff at least
\* max_per_minute rows lie in (t - 60 s, t]; otherwise (False, per-day reason)
\* iff at least max_per_day rows lie in (t - 24 h, t]; otherwise (True, None).
\* (The ledger is as the call saw it: every later write replaces last_op.)
C7_CanPostDecision ==
    last_op.op = "can_post" =>
        LET t == last_op.at IN
        /\ (last_op.result = <<FALSE, "per-minute">>) <=> MinuteCapReached(t)
        /\ ~MinuteCapReached(t) =>
              ((last_op.result = <<FALSE, "per-day">>) <=> DayCapReached(t))
        /\ (~MinuteCapReached(t) /\ ~DayCapReached(t)) => last_op.result = <<TRUE, "None">>

\* C7 witness: can_post() was called with both caps reached and gave the
\* per-minute reason.
C7_Witness ==
    /\ last_op.op = "can_post"
    /\ MinuteCapReached(last_op.at)
    /\ DayCapReached(last_op.at)
    /\ last_op.result = <<FALSE, "per-minute">>

\* The oldest of the max_per_minute most recent ledger rows.
OldestOfRecent == twitter_posts[Len(twitter_posts) - max_per_minute + 1]

DeniedPerMinuteAndNothingSince ==
    /\ last_op.op = "can_post"
    /\ last_op.result = <<FALSE, "per-minute">>
    /\ Len(twitter_posts) >= max_per_minute

\* C8 as claimed: after a per-minute denial and no further record_post,
\* can_post() denies until the oldest of the N = max_per_minute most recent
\* publishes is MORE than 60 s old, and allows from then on (daily cap permitting).
C8_RecoveryAfterMoreThanSixty ==
    DeniedPerMinuteAndNothingSince =>
        /\ now - OldestOfRecent <= MINUTE_SECONDS
              => can_post(twitter_posts, now) = <<FALSE, "per-minute">>
        /\ (now - OldestOfRecent > MINUTE_SECONDS /\ ~DayCapReached(now))
              => can_post(twitter_posts, now) = <<TRUE, "None">>

\* C8 as amended: after a per-minute denial and no further record_post,
\* can_post() denies while the oldest of the N most recent publishes is less
\* than 60 s old, and allows once it is at least 60 s old (daily cap permitting).
C8_RecoveryAtSixty ==
    DeniedPerMinuteAndNothingSince =>
        /\ now - OldestOfRecent < MINUTE_SECONDS
              => can_post(twitter_posts, now) = <<FALSE, "per-minute">>
        /\ (now - OldestOfRecent >= MINUTE_SECONDS /\ ~DayCapReached(now))
              => can_post(twitter_posts, now) = <<TRUE, "None">>

\* C8 witness: denied per-minute, then exactly 60 s after the oldest of the N
\* publishes, with the daily cap not reached, can_post() allows.
C8_Witness ==
    /\ DeniedPerMinuteAndNothingSince
    /\ now - OldestOfRecent = MINUTE_SECONDS
    /\ ~DayCapReached(now)
    /\ can_post(twitter_posts, now) = <<TRUE, "None">>

\* C33: whenever wait_if_needed has returned True, can_post() evaluated at
\* the moment of the return allows the post.
C33_WaitReturnsTrueOnlyWhenAllowed ==
    (last_op.op = "wait_if_needed" /\ last_op.result[1])
        => can_post(twitter_posts, last_op.at)[1]

\* C34: the retention sweep never changes a rate-limit decision: at the time
\* of a cleanup_old_records(days) call with days >= 1, can_post answers the
\* same on the ledger before the call and on the ledger after it.
C34_SweepKeepsDecision ==
    [][(last_op'.op = "cleanup_old_records" /\ calls' = calls + 1)
       => can_post(twitter_posts', now) = can_post(twitter_posts, now)]_vars

\* A sweep has deleted a row and the limiter, asked at that moment, still
\* denies on the rows that are left.
C34_Witness ==
    /\ last_op.op = "cleanup_old_records"
    /\ last_op.at = now
    /\ \E p \in 0..now :
          /\ <<"deleted", p>> \in record_calls
          /\ p < now - last_op.args[1] * DAY_SECONDS
    /\ ~can_post(twitter_posts, now)[1]

-----------------------------------------------------------------------------
(* Properties of the allocator (checked under AllocSpec).                    *)

allocation == allocate_slots(active_endpoints, ENDPOINT_CONFIG, max_per_day)

FixedNames ==
    {ep \in Range(active_endpoints) : ENDPOINT_CONFIG[ep].max_daily # NoMaxDaily}

FlexibleNames == Range(active_endpoints) \ FixedNames

RECURSIVE SumOver(_, _)
SumOver(S, f) ==
    IF S = {} THEN 0
    ELSE LET x == CHOOSE y \in S : TRUE IN f[x] + SumOver(S \ {x}, f)

FixedTotal == SumOver(FixedNames, [ep \in FixedNames |-> ENDPOINT_CONFIG[ep].max_daily])

Max(a, b) == IF a >= b THEN a ELSE b

\* C9: for every active set and every daily cap, the values returned by
\* _allocate_slots (fixed counts plus flexible allocations) sum to at most
\* twitter_max_posts_per_day.
C9_TotalWithinDailyCap ==
    SumOver(DOMAIN allocation, allocation) <= max_per_day

\* C10: for every active set and daily cap C, the flexible allocations sum to
\* at most max(0, C - sum of fixed allocations) and each is a non-negative
\* integer.
C10_FlexibleWithinRemainder ==
    /\ DOMAIN allocation = Range(active_endpoints)
    /\ SumOver(FlexibleNames, allocation) <= Max(0, max_per_day - FixedTotal)
    /\ \A ep \in FlexibleNames : allocation[ep] \in Nat

\* C10 witness: after a rebalance of the running scheduler, several flexible
\* endpoints share a positive remainder that does not divide evenly.
C10_Witness ==
    /\ running
    /\ ops > 0
    /\ Cardinality(FlexibleNames) >= 2
    /\ max_per_day - FixedTotal > 0
    /\ (max_per_day - FixedTotal) % Len(SelectSeq(active_endpoints,
            LAMBDA ep : ep \in FlexibleNames)) # 0
    /\ SumOver(FlexibleNames, allocation) = max_per_day - FixedTotal

\* C11: for any two active flexible sources a and b, if a's priority value
\* is lower than b's (a has the higher priority), _allocate_slots gives a at
\* least as many slots as b, for every active set and every daily cap.
C11_PriorityMonotone ==
    \A a \in FlexibleNames, b \in FlexibleNames :
        ENDPOINT_CONFIG[a].priority < ENDPOINT_CONFIG[b].priority
            => allocation[a] >= allocation[b]

\* C11 witness: after a rebalance, a flexible source of a higher priority
\* holds strictly more slots than one of a lower priority.
C11_Witness ==
    /\ running
    /\ ops > 0
    /\ \E a \in FlexibleNames, b \in FlexibleNames :
          /\ ENDPOINT_CONFIG[a].priority < ENDPOINT_CONFIG[b].priority
          /\ allocation[a] > allocation[b]

Remaining == max_per_day - FixedTotal

\* C12: when remaining = cap - sum(fixed) is positive and there are n >= 1
\* flexible sources, each gets floor(remaining / n) or one more, exactly
\* remaining mod n of them get the extra slot, and the flexible allocations
\* sum to exactly remaining.
C12_EvenSplitOfRemaining ==
    LET n == Cardinality(FlexibleNames)
    IN  (Remaining > 0 /\ n >= 1) =>
            /\ \A ep \in FlexibleNames :
                  allocation[ep] \in {Remaining \div n, Remaining \div n + 1}
            /\ Cardinality({ep \in FlexibleNames :
                               allocation[ep] = Remaining \div n + 1}) = Remaining % n
            /\ SumOver(FlexibleNames, allocation) = Remaining

\* The firing times of an active source under the current allocation.
ExpectedTimes(ep) ==
    IF ENDPOINT_CONFIG[ep].has_fixed_times THEN ENDPOINT_CONFIG[ep].fixed_times
    ELSE IF allocation[ep] > 0
    THEN generate_times(allocation[ep], ENDPOINT_CONFIG[ep].window)
    ELSE generate_times(2, ENDPOINT_CONFIG[ep].window)

ExpectedJobIds ==
    {JobId(x[1], x[2]) :
        x \in UNION {{ep} \X Range(ExpectedTimes(ep)) : ep \in Range(active_endpoints)}}
    \cup {CleanupJob.id}

\* C14: after any sequence of add_endpoint and remove_endpoint calls on a
\* running scheduler the registered job ids are exactly one '<source>_<HHMM>'
\* per active source and firing time of the current allocation, plus
\* 'cleanup': no job left over from a removed source or a dropped time, and no
\* id registered twice.
C14_JobsAreExpected ==
    running =>
        /\ {j.id : j \in jobs} = ExpectedJobIds
        /\ \A j \in jobs, k \in jobs : j.id = k.id => j = k

\* C14 witness: on the running scheduler one source was removed and a
\* different one added.
C14_Witness ==
    /\ running
    /\ ops >= 2
    /\ "custom_feed" \in Range(active_endpoints)
    /\ \E ep \in Range(EndpointOrder) : ep \notin Range(active_endpoints)
    /\ \E j \in jobs : j.endpoint = "custom_feed"
    /\ Cardinality(jobs) > 1

CleanupJobs(registered) == {j \in registered : j.id = CleanupJob.id}

\* C30: every step that leaves the scheduler started leaves exactly one job
\* with id 'cleanup' registered, and a step of the started scheduler (every
\* rebalance is one) leaves that job as it was: it is neither removed nor
\* joined by a second one.
C30_OneCleanupJob ==
    [][running' => /\ Cardinality(CleanupJobs(jobs')) = 1
                   /\ running => CleanupJobs(jobs') = CleanupJobs(jobs)]_vars

\* C30 witness: the scheduler is started, the endpoint list has been changed
\* twice and is not the configured one, and the cleanup job is registered
\* among the endpoint jobs.
C30_Witness ==
    /\ running
    /\ ops = MaxOps
    /\ CleanupJob \in jobs
    /\ Cardinality(jobs) > 1
    /\ Len(active_endpoints) # Len(EndpointOrder)

\* How many times a name is listed in a list of endpoints.
Occurrences(list, x) == Cardinality({i \in DOMAIN list : list[i] = x})

\* C35: after any add_endpoint or remove_endpoint call, active_endpoints lists
\* each source at most once, and a source taken out by remove_endpoint is no
\* longer active, has no job and is not among the flexible sources that
\* share the slots.
C35_RemovedSourceIsGone ==
    [][/\ \A x \in Range(active_endpoints') : Occurrences(active_endpoints', x) = 1
       /\ \A x \in Range(active_endpoints) :
             Occurrences(active_endpoints', x) < Occurrences(active_endpoints, x)
                => /\ x \notin Range(active_endpoints')
                   /\ \A j \in jobs' : j.endpoint # x
                   /\ x \notin DOMAIN allocate_slots(active_endpoints', ENDPOINT_CONFIG',
                                                     max_per_day)]_vars

\* The weekdays a job's CronTrigger fires on: every day without day_of_week.
Weekdays(day_of_week) ==
    CASE day_of_week = "0,2,4" -> {0, 2, 4}
      [] day_of_week = "1,3" -> {1, 3}
      [] day_of_week = "5,6" -> {5, 6}
      [] OTHER -> 0..6

\* C38: in the job set built by add_jobs, no two jobs of different sources
\* that both have a non-zero Twitter allocation fire at the same
\* (hour, minute) on a common weekday.
C38_AllocatedFiringsDoNotCollide ==
    LET Allocated(j) == /\ j.endpoint \in DOMAIN allocation
                        /\ allocation[j.endpoint] > 0
    IN  \A j1, j2 \in jobs :
            (/\ Allocated(j1) /\ Allocated(j2)
             /\ j1.endpoint # j2.endpoint
             /\ j1.id[2] = j2.id[2])
                => Weekdays(j1.day_of_week) \cap Weekdays(j2.day_of_week) = {}

-----------------------------------------------------------------------------
(* Properties of _generate_times (checked under TimesSpec).                  *)

MinuteOfDay(hm) == hm[1] * 60 + hm[2]

\* C13: for every n_slots >= 2 and each window [start, end],
\* _generate_times returns exactly n_slots (hour, minute) pairs, non-decreasing
\* in time of day, the first at the window start, the last at the window end,
\* and every one inside [start, end].
C13_TimesSpanWindow ==
    (last_op.op = "generate_times" /\ last_op.args[1] >= 2) =>
        LET n_slots == last_op.args[1]
            window_start == WindowRange(last_op.args[2])[1]
            window_end == WindowRange(last_op.args[2])[2]
            times == last_op.result
        IN  /\ DOMAIN times = 1..n_slots
            /\ MinuteOfDay(times[1]) = window_start
            /\ MinuteOfDay(times[n_slots]) = window_end
            /\ \A k \in 1..n_slots :
                  /\ times[k][1] \in 0..23 /\ times[k][2] \in 0..59
                  /\ window_start <= MinuteOfDay(times[k]) /\ MinuteOfDay(times[k]) <= window_end
            /\ \A k \in 1..(n_slots - 1) :
                  MinuteOfDay(times[k]) <= MinuteOfDay(times[k + 1])

\* C13 witness: a call for the market-hours window with an interval that is
\* not a whole number of minutes (360 minutes in 7 steps).
C13_Witness ==
    /\ last_op.op = "generate_times"
    /\ last_op.args = <<8, "market_hours">>
    /\ Len(last_op.result) = 8

-----------------------------------------------------------------------------
(* Properties of the publish pipeline (checked under Spec).                  *)

TwitterPublishes == {i \in DOMAIN pub_log : pub_log[i].platform = "twitter"}

\* The successful Twitter publishes in the window of the given length that
\* ends at t, the window can_post counts: (t - length, t].
PublishesInWindow(t, length) ==
    {i \in TwitterPublishes : pub_log[i].at > t - length /\ pub_log[i].at <= t}

WindowEnds == {pub_log[i].at : i \in TwitterPublishes} \cup {now}

\* C1: under every interleaving of scheduled firings and manual triggers, with
\* every payload and publish outcome and with time advancing, the successful
\* Twitter publishes within any trailing 60 seconds never number more than
\* twitter_max_posts_per_minute, and those within any trailing 24 hours never
\* more than twitter_max_posts_per_day.
C1_PublishesWithinCaps ==
    \A t \in WindowEnds :
        /\ Cardinality(PublishesInWindow(t, MINUTE_SECONDS)) <= max_per_minute
        /\ Cardinality(PublishesInWindow(t, DAY_SECONDS)) <= max_per_day

\* C1 witness: the minute's publishes have reached the cap and a later firing
\* that got as far as the rate check was refused.
C1_Witness ==
    /\ Cardinality(PublishesInWindow(now, MINUTE_SECONDS)) = max_per_minute
    /\ stats.rate_limit_blocks > 0

\* C2: once a firing of source s has published payload p to a platform, no
\* firing of s that starts later and fetches the same p publishes it to that
\* platform again while no retention sweep has removed the first publish.
C2_NoRepublish ==
    \A i \in DOMAIN pub_log : ~pub_log[i].again

\* C6: when a firing has published p to Discord and stored (p, s, discord),
\* and then publishes p to Twitter, the row (p, s, twitter) is stored; it is
\* there for as long as no retention sweep has passed over the publish.
C6_TwitterRowStoredAfterDiscord ==
    \A i \in TwitterPublishes :
        (pub_log[i].after_discord /\ ~pub_log[i].swept) =>
            RowsOf(content_hashes, pub_log[i].content_hash,
                   pub_log[i].endpoint, "twitter") # {}

\* The successful publishes of a triple made at time t.
PublishesOf(content_hash, endpoint, platform, t) ==
    {i \in DOMAIN pub_log : /\ pub_log[i].content_hash = content_hash
                            /\ pub_log[i].endpoint = endpoint
                            /\ pub_log[i].platform = platform
                            /\ pub_log[i].at = t}

\* C16: a publish attempt that fails (the platform call returns false or
\* raises) writes no Publish Record for its (payload, source, platform), on
\* Discord as on Twitter: outside dry-run every stored row belongs to a
\* successful publish of its triple made at the row's time.
C16_RowsOnlyForSuccessfulPublishes ==
    ~dry_run =>
        \A i \in DOMAIN content_hashes :
            PublishesOf(content_hashes[i].content_hash, content_hashes[i].endpoint,
                        content_hashes[i].platform, content_hashes[i].posted_at) # {}

\* C17: a flexible source whose allocation is 0 never publishes to Twitter.
C17_NoTwitterWithoutSlots ==
    \A i \in TwitterPublishes :
        pub_log[i].endpoint \in FlexibleNames => allocation[pub_log[i].endpoint] > 0

\* C19: a manual trigger with an unrecognized name changes nothing, and a
\* manual trigger with a recognized name runs that source's pipeline once:
\* whenever the handler can be called, the request for each recognized name
\* can only start one _execute_job fetch of that source, and the request for
\* any other name can change no variable.
C19_TriggerRunsRecognizedOnly ==
    (running /\ firings < MaxFirings) =>
        \A endpoint \in TriggerNames :
            IF endpoint \in TriggerTable
            THEN /\ ENABLED trigger_request(endpoint)
                 /\ ~ENABLED (trigger_request(endpoint)
                               /\ tasks' # Append(tasks, NewTask(endpoint)))
            ELSE ~ENABLED (trigger_request(endpoint) /\ vars' # vars)

\* Where a coroutine stands in _post_content: at "generate" it is suspended
\* in the chart download or the text generation (scheduler_v2.py:342-354),
\* at "discord" in post_embed (scheduler_v2.py:394-397).
GenerationCalled(task) == task.pc \in {"generate", "discord"}

\* The platforms is_duplicate has been evaluated for so far in the run: the
\* Discord query is at scheduler_v2.py:367, the Twitter one at 409.
DedupEvaluated(task) == IF task.pc = "discord" THEN {"discord"} ELSE {}

\* C22: in every run, no text generation is called for a platform before
\* is_duplicate has been evaluated for that platform.
C22_DedupBeforeGeneration ==
    \A t \in DOMAIN tasks :
        GenerationCalled(tasks[t]) => Platforms \subseteq DedupEvaluated(tasks[t])

\* The times of the logged Twitter publishes the cleanup has not swept.
UnsweptTwitterTimes ==
    LET kept == SelectSeq(pub_log, LAMBDA e : e.platform = "twitter" /\ ~e.swept)
    IN  [i \in DOMAIN kept |-> kept[i].at]

\* C23: the rate-limit ledger holds exactly one row per Twitter publish
\* attempt that returned success, with the time of that publish (rows and
\* publishes past the retention cutoff are swept together); no failed,
\* rate-limited, duplicate or dry-run firing and no Discord publish adds a row.
C23_LedgerRowsArePublishes == twitter_posts = UnsweptTwitterTimes

\* C23 witness: one tweet has been published and its row written, and another
\* firing has gone through the Twitter half without publishing.
C23_Witness ==
    /\ Len(twitter_posts) = 1
    /\ Cardinality(TwitterPublishes) = 1
    /\ stats.total_posts = 2
    /\ tasks = <<>>
    /\ stats.failed_posts + stats.rate_limit_blocks + stats.skipped_duplicates > 0

\* The Discord publishes of a task's payload for its source in a log.
DiscordPublishesOf(log, task) ==
    {i \in DOMAIN log : /\ log[i].platform = "discord"
                         /\ log[i].endpoint = task.endpoint
                         /\ log[i].content_hash = compute_hash(task.data)}

\* The run is suspended at post_embed, past its own duplicate test, and
\* another run of the same source has published and recorded the same
\* payload on Discord since this run began.
OvertakenAtDiscord(t) ==
    /\ tasks[t].pc = "discord"
    /\ is_duplicate(content_hashes, tasks[t].data, tasks[t].endpoint, "discord")
    /\ \E i \in DiscordPublishesOf(pub_log, tasks[t]) : i > tasks[t].log_len

\* C36: of two overlapping runs for one source with the identical payload,
\* both suspended at the Discord publish, only one publishes it: the run
\* that resumes after the other has published adds no Discord publish.
C36_OverlappingRunsPublishOnce ==
    [][\A t \in DOMAIN tasks : \A outcome \in DiscordOutcomes, tweet \in TweetOutcomes :
          (OvertakenAtDiscord(t) /\ discord_returns_in(t, outcome, tweet))
             => DiscordPublishesOf(pub_log', tasks[t])
                    = DiscordPublishesOf(pub_log, tasks[t])]_vars

-----------------------------------------------------------------------------
(* Properties across restarts (checked under RestartSpec).                   *)

PipelineTriples ==
    {<<data, endpoint, platform>> :
        data \in FetchResults, endpoint \in FiredEndpoints, platform \in Platforms}

\* C18: dedup and rate-limit state survive a restart on the same database:
\* across the step in which the process is replaced, is_duplicate answers the
\* same for every triple, can_post counts the same ledger rows in both
\* windows and decides the same, and the statistics counters are back at zero.
C18_StateSurvivesRestart ==
    [][(running /\ ~running') =>
          /\ \A x \in PipelineTriples :
                is_duplicate(content_hashes', x[1], x[2], x[3])
                    = is_duplicate(content_hashes, x[1], x[2], x[3])
          /\ CountSince(twitter_posts', now' - MINUTE_SECONDS)
                = CountSince(twitter_posts, now - MINUTE_SECONDS)
          /\ CountSince(twitter_posts', now' - DAY_SECONDS)
                = CountSince(twitter_posts, now - DAY_SECONDS)
          /\ can_post(twitter_posts', now') = can_post(twitter_posts, now)
          /\ stats' = InitStats]_vars

\* C18 witness: a new process has come up and not started its jobs yet; the
\* counters are zero, the store holds a triple that is a duplicate and the
\* ledger a row that makes can_post deny.
C18_Witness ==
    /\ ~running
    /\ stats = InitStats
    /\ \E x \in PipelineTriples : is_duplicate(content_hashes, x[1], x[2], x[3])
    /\ ~can_post(twitter_posts, now)[1]

-----------------------------------------------------------------------------
(* Properties of _compute_hash (checked under HashSpec).                     *)

Keys(data) == {data[i][1] : i \in DOMAIN data}

\* Two objects are the same content: the same keys, and under every key the
\* same number or, recursively, the same object; insertion order aside.
RECURSIVE SameObject(_, _)
SameObject(a, b) ==
    /\ Keys(a) = Keys(b)
    /\ \A k \in Keys(a) :
          LET x == dict_get(a, k, JsonInt(0))
              y == dict_get(b, k, JsonInt(0))
          IN  /\ x.map = y.map
              /\ IF x.map THEN SameObject(x.kv, y.kv) ELSE x.v = y.v

\* C21: the fingerprint of a payload equals the fingerprint of another
\* payload exactly when the two are the same content, whatever the
\* insertion order of the keys of the payload and of its nested objects.
C21_FingerprintIffSameContent ==
    last_op.op = "_compute_hash" =>
        \A other \in HashPayloads :
            (last_op.result = compute_hash(other)) <=> SameObject(last_op.data, other)

\* C21 witness: a payload with a nested object has been fingerprinted, and
\* another payload with the same content has the keys of the nested object
\* in the other order.
C21_Witness ==
    /\ last_op.op = "_compute_hash"
    /\ dict_get(last_op.data, "data", JsonInt(0)).map
    /\ \E other \in HashPayloads :
          /\ SameObject(last_op.data, other)
          /\ other[1][1] = last_op.data[1][1]
          /\ dict_get(other, "data", JsonInt(0)) # dict_get(last_op.data, "data", JsonInt(0))
          /\ last_op.result = compute_hash(other)

-----------------------------------------------------------------------------
(* Properties of the steps of a firing (checked under FetchSpec).           *)

\* The rows of a dedup table, and the logged publishes, of one platform.
RowsOn(db, platform) == SelectSeq(db, LAMBDA row : row.platform = platform)
LoggedOn(log, platform) == SelectSeq(log, LAMBDA e : e.platform = platform)

\* Across the step, no publish to the platform is logged and no Publish
\* Record of the platform is written.
NoPublishOn(platform) ==
    /\ RowsOn(content_hashes', platform) = RowsOn(content_hashes, platform)
    /\ LoggedOn(pub_log', platform) = LoggedOn(pub_log, platform)

\* What post_tweet can return.
TweetReturns == {"true", "false"}

\* C24: when is_duplicate is true for a platform in a firing, the run counts
\* one skipped duplicate for that platform, publishes nothing to it and
\* writes no Publish Record for it; for Twitter, the rate limiter is not
\* consulted (no block is counted) and no ledger row is written.
C24_DuplicateIsSkipped ==
    [][\A t \in DOMAIN tasks :
          LET task == tasks[t]
              dup(platform) == is_duplicate(content_hashes, task.data, task.endpoint,
                                            platform)
              skipped == stats'.skipped_duplicates - stats.skipped_duplicates
          IN  /\ \A tweet \in TweetOutcomes :
                    (content_generated_in(t, FALSE, tweet) /\ dup("discord"))
                    => /\ NoPublishOn("discord")
                       /\ skipped = 1 + (IF dup("twitter") /\ tweet # "raise"
                                         THEN 1 ELSE 0)
              /\ \A tweet \in TweetReturns :
                    (/\ dup("twitter")
                     /\ tasks' = Without(tasks, t)
                     /\ \/ content_generated_in(t, FALSE, tweet)
                        \/ \E outcome \in DiscordOutcomes :
                              discord_returns_in(t, outcome, tweet))
                    => /\ NoPublishOn("twitter")
                       /\ twitter_posts' = twitter_posts
                       /\ stats'.rate_limit_blocks = stats.rate_limit_blocks
                       /\ stats'.successful_posts = stats.successful_posts
                       /\ skipped = 1 + (IF task.pc = "generate" THEN 1 ELSE 0)]_vars

\* C24 witness: a tweet's Publish Record is stored and a later run has
\* skipped a duplicate; with that row in the table no Discord row of the
\* same payload exists, so the skip was on Twitter.
C24_Witness ==
    /\ stats.skipped_duplicates > 0
    /\ \E i \in DOMAIN content_hashes : content_hashes[i].platform = "twitter"
    /\ \A i \in DOMAIN content_hashes : content_hashes[i].platform # "discord"

\* C25: when can_post() denies in a firing, the run counts one rate-limit
\* block, makes no Twitter publish and writes neither a ledger row nor a
\* Twitter Publish Record; the Discord half of the same firing has done what
\* it does whatever the limiter says: its record is written (unless the half
\* raised) and a publish that post_embed reports is logged.
C25_DenialBlocksTwitterOnly ==
    [][\A t \in DOMAIN tasks, tweet \in TweetReturns :
          LET task == tasks[t]
              denied == /\ ~is_duplicate(content_hashes, task.data, task.endpoint,
                                          "twitter")
                        /\ ~can_post(twitter_posts, now)[1]
              blocked == /\ stats'.rate_limit_blocks = stats.rate_limit_blocks + 1
                         /\ stats'.successful_posts = stats.successful_posts
                         /\ twitter_posts' = twitter_posts
                         /\ NoPublishOn("twitter")
          IN  /\ (/\ denied
                  /\ tasks' = Without(tasks, t)
                  /\ content_generated_in(t, FALSE, tweet)) => blocked
              /\ \A outcome \in DiscordOutcomes :
                    (denied /\ discord_returns_in(t, outcome, tweet))
                    => /\ blocked
                       /\ RowsOn(content_hashes', "discord") =
                              RowsOn(IF outcome = "raise" THEN content_hashes
                                     ELSE Deduplicator_record_post(content_hashes,
                                              task.data, task.endpoint, "discord", now),
                                     "discord")
                       /\ Len(LoggedOn(pub_log', "discord")) =
                              Len(LoggedOn(pub_log, "discord"))
                              + (IF outcome = "true" /\ ~dry_run THEN 1 ELSE 0)]_vars

\* C25 witness: a firing has just published to Discord while the limiter,
\* its one slot of the minute taken by an earlier tweet, blocked the Twitter
\* half of the same firing.
C25_Witness ==
    /\ stats.rate_limit_blocks = 1
    /\ stats.total_posts = 2
    /\ tasks = <<>>
    /\ Len(twitter_posts) = 1
    /\ ~can_post(twitter_posts, now)[1]
    /\ Len(pub_log) = 3
    /\ pub_log[3].platform = "discord"
    /\ pub_log[3].at = now

\* Across the step the firing of coroutine t has ended, and the dedup store,
\* the ledger, the counters, the publish history and the registered jobs are
\* what they were.
EndsWithoutTrace(t) ==
    /\ tasks' = Without(tasks, t)
    /\ content_hashes' = content_hashes
    /\ twitter_posts' = twitter_posts
    /\ stats' = stats
    /\ pub_log' = pub_log
    /\ jobs' = jobs
    /\ running' = running

\* C26: a firing whose fetch raises or reports success = false ends there:
\* nothing is published, the dedup store, the ledger and the counters are
\* unchanged, and the job stays registered on the running scheduler.
C26_FailedFetchChangesNothing ==
    [][\A t \in DOMAIN tasks, raised \in BOOLEAN, data \in FetchResults :
          (/\ fetch_returns_in(t, raised, data)
           /\ raised \/ dict_get(data, "success", JsonInt(0)) = JsonInt(0))
          => EndsWithoutTrace(t)]_vars

\* C26 witness: one fetch has raised and one has reported failure, and a
\* firing of the same scheduler has gone through the pipeline and published.
C26_Witness ==
    /\ {"raised", "failed"} \subseteq record_calls
    /\ stats.total_posts > 0
    /\ pub_log # <<>>
    /\ running

\* C27: a firing of a source that has an emptiness check, whose response
\* reports success with an empty content collection, ends before any
\* generation, dedup query or record, rate-limit check or publish: no
\* counter, dedup record or ledger row changes.
C27_EmptyContentChangesNothing ==
    [][\A t \in DOMAIN tasks, data \in FetchResults :
          (/\ fetch_returns_in(t, FALSE, data)
           /\ tasks[t].endpoint \in EmptyChecked
           /\ dict_get(data, "success", JsonInt(0)) # JsonInt(0)
           /\ dict_get(data, "data", JsonInt(0)) = JsonInt(0))
          => EndsWithoutTrace(t)]_vars

\* C27 witness: a fetch has returned an empty response while the dedup
\* store and the ledger hold rows of an earlier firing.
C27_Witness ==
    /\ "empty" \in record_calls
    /\ content_hashes # <<>>
    /\ twitter_posts # <<>>
    /\ stats.total_posts = 1

\* C28: whichever step of a firing fails (the fetch, the chart download or
\* generation, the Discord half, the Twitter half by an exception or by
\* post_tweet returning false), _execute_job ends without letting an
\* exception out, and the jobs stay registered on the running scheduler.
C28_NoFailureIsFatal ==
    [][\A t \in DOMAIN tasks, tweet \in TweetOutcomes :
          (\/ \E data \in FetchResults : fetch_returns_in(t, TRUE, data)
           \/ content_generated_in(t, TRUE, tweet)
           \/ /\ content_generated_in(t, FALSE, tweet)
              /\ tasks' = Without(tasks, t)
              /\ tweet # "true"
           \/ \E outcome \in DiscordOutcomes :
                 /\ discord_returns_in(t, outcome, tweet)
                 /\ outcome # "true" \/ tweet # "true")
          => /\ ~last_op'.propagated
             /\ tasks' = Without(tasks, t)
             /\ jobs' = jobs
             /\ running' = running]_vars

\* C28 witness: a fetch has raised and two publish steps have failed, and
\* the scheduler is running with its jobs registered and nothing in flight.
C28_Witness ==
    /\ "raised" \in record_calls
    /\ stats.failed_posts >= 2
    /\ running
    /\ CleanupJob \in jobs
    /\ \E job \in jobs : job.endpoint \in FiredEndpoints
    /\ tasks = <<>>
    /\ ~last_op.propagated

\* C31: the outcome counters match the outcomes on both platforms: with
\* dry_run off, successful_posts is the number of successful publishes,
\* Discord and Twitter together.
C31_SuccessfulPostsCountPublishes == stats.successful_posts = Len(pub_log)

-----------------------------------------------------------------------------
(* Properties of the market-hours gate (checked under MarketSpec).           *)

\* C29: whenever a job of a market-hours-restricted source can fire, its
\* firing changes nothing (no fetch is started) if the time is outside
\* [market open, market close] or the day is Saturday or Sunday, and it
\* starts the fetch if the time is inside the window, boundaries included,
\* on a weekday.
C29_MarketHoursGate ==
    (running /\ firings < MaxFirings) =>
        \A job \in jobs :
            (job.market_hours_only /\ job.endpoint \in FiredEndpoints) =>
                LET weekday == (now \div DAY_SECONDS) % 7
                    clock == now % DAY_SECONDS
                    inside == /\ weekday \in 0..4
                              /\ clock >= MarketOpen
                              /\ clock <= MarketClose
                IN  IF inside
                    THEN /\ ENABLED execute_job(job.endpoint, job.api_method, TRUE)
                         /\ ~ENABLED (/\ execute_job(job.endpoint, job.api_method, TRUE)
                                      /\ tasks' # Append(tasks, NewTask(job.endpoint)))
                    ELSE ~ENABLED (/\ execute_job(job.endpoint, job.api_method, TRUE)
                                   /\ vars' # vars)

\* C29 witness: at the close of the market on a Friday a firing of the
\* restricted source yahoo_quote is awaiting its fetch.
C29_Witness ==
    /\ now = 4 * DAY_SECONDS + MarketClose
    /\ \E t \in DOMAIN tasks :
          tasks[t].endpoint = "yahoo_quote" /\ tasks[t].pc = "fetch"
    /\ \E job \in jobs : job.endpoint = "yahoo_quote" /\ job.market_hours_only


-----------------------------------------------------------------------------
(* Properties of the interval-based scheduler (checked under IntervalSpec). *)

\* C37: under any interleaving of the jobs' runs, the Twitter publishes
\* recorded in the ledger within the 60 seconds up to any of them never
\* exceed twitter_max_posts_per_minute, and within the 24 hours up to any of
\* them never exceed twitter_max_posts_per_day.
C37_RecordedTweetsWithinCaps ==
    \A i \in DOMAIN twitter_posts :
        /\ Cardinality(RowsInWindow(twitter_posts, twitter_posts[i], MINUTE_SECONDS))
               <= max_per_minute
        /\ Cardinality(RowsInWindow(twitter_posts, twitter_posts[i], DAY_SECONDS))
               <= max_per_day

====
